---- MODULE Spec2Model ----
(***************************************************************************)
(* Slot allocators of the toolbox crate: the typed arena                   *)
(* (src/arena/typed.rs) and the generational arena                         *)
(* (src/arena/generational.rs).                                            *)
(*                                                                         *)
(* A Vec<Entry<T>> is a sequence; Rust's 0-based slot i is element i + 1   *)
(* of the sequence.  The Vec's allocated capacity is kept beside it,       *)
(* because Arena::capacity and the amount of growth read it.               *)
(***************************************************************************)
EXTENDS Integers, Sequences, FiniteSets, TLC

\* typed.rs: pub const MIN_CAPACITY: u32 = 16
MIN_CAPACITY == 16

\* Items stored by the callers.
Values == {1, 2}
PlainValue == CHOOSE v \in Values : \A w \in Values : v <= w

\* Arguments the callers give to Arena::with_capacity.
CapInputs == {8, 16, 17}

\* insert grows the store only while the grown store has at most MaxLen slots.
MaxLen == 31

\* The caller keeps the handles of slots 1..MaxKept (and the handle of its
\* latest call) to use them again in remove and get.
MaxKept == 1

\* Arguments the callers give to the generational Arena::with_capacity.
GenCapInputs == 0..3

\* Arguments the callers give to Graph::with_capacity.
GraphCapInputs == {9}

\* add_vertex is called at most MaxVertices times and add_edge returns at
\* most MaxEdges times.
MaxVertices == 2
MaxEdges == 3

Max(a, b) == IF a >= b THEN a ELSE b

----------------------------------------------------------------------------
(* Option, Result, Entry *)

None == <<"None">>
Some(x) == <<"Some", x>>
Ok(x) == <<"Ok", x>>
Err(x) == <<"Err", x>>
Index(h) == <<"Index", h>>
Panic(msg) == <<"Panic", msg>>

Vacant(next) == <<"Vacant", next>>
Occupied(item) == <<"Occupied", item>>

IsVacant(e) == e[1] = "Vacant"
IsOccupied(e) == e[1] = "Occupied"

At(d, i) == d[i + 1]
Put(d, i, e) == [d EXCEPT ![i + 1] = e]

\* Vec::reserve(additional) on a Vec of the given capacity and length: nothing
\* when the spare capacity suffices, else amortized growth.
VecReserve(c, len, additional) ==
    IF c - len >= additional THEN c ELSE Max(2 * c, len + additional)

----------------------------------------------------------------------------
(* Typed arena: an arena value is [data |-> Seq(Entry), cap |-> Nat] *)

\* capacity counting the spare room of the Vec instead of its capacity.
capacity_spare(a) == a.cap - Len(a.data)

capacity(a) == a.cap - 1

get_free(d) ==
    IF Len(d) > 0 /\ IsVacant(At(d, 0)) THEN At(d, 0)[2] ELSE None

set_free(d, next) == Put(d, 0, Vacant(next))

\* reserve without `*self.data.last_mut().unwrap() = Entry::Vacant(head)`.
reserve_no_tail(a, n) ==
    LET start == Len(a.data)
        pushed == [k \in 1..(n - 1) |-> Vacant(Some(start + k))]
    IN  [data |-> set_free(a.data \o pushed, Some(start)),
         cap |-> VecReserve(a.cap, start, n)]

\* reserve pushing over `start..end` instead of `start..end - 1`.
reserve_full_range(a, n) ==
    LET start == Len(a.data)
        head == get_free(a.data)
        pushed == [k \in 1..n |-> Vacant(Some(start + k))]
        d1 == a.data \o pushed
        d2 == [d1 EXCEPT ![Len(d1)] = Vacant(head)]
    IN  [data |-> set_free(d2, Some(start)),
         cap |-> VecReserve(a.cap, start, n)]

\* reserve taking `start` one too low: the index of the last slot instead of
\* the number of slots.
reserve_zero_based(a, n) ==
    LET start == Len(a.data) - 1
        head == get_free(a.data)
        pushed == [k \in 1..(n - 1) |-> Vacant(Some(start + k))]
        d1 == a.data \o pushed
        d2 == [d1 EXCEPT ![Len(d1)] = Vacant(head)]
    IN  [data |-> set_free(d2, Some(start)),
         cap |-> VecReserve(a.cap, Len(a.data), n)]

reserve(a, n) ==
    LET start == Len(a.data)
        end == start + n
        head == get_free(a.data)
        \* for idx in start..end - 1: push Vacant(Some(idx + 1))
        pushed == [k \in 1..(end - 1 - start) |-> Vacant(Some(start + k))]
        d1 == a.data \o pushed
        d2 == [d1 EXCEPT ![Len(d1)] = Vacant(head)]
    IN  [data |-> set_free(d2, Some(start)),
         cap |-> VecReserve(a.cap, start, n)]

with_capacity(n) ==
    reserve([data |-> <<Vacant(None)>>, cap |-> 1], Max(n, MIN_CAPACITY))

\* try_insert that reserves when the free list is empty and still rejects.
try_insert_reserves(a, item) ==
    LET free == get_free(a.data)
        g == reserve(a, capacity(a))
    IN
    IF free = None
    THEN [data |-> g.data, cap |-> g.cap, ret |-> Err(item)]
    ELSE LET index == free[2]
             old == At(a.data, index)
             d1 == Put(a.data, index, Occupied(item))
         IN  [data |-> set_free(d1, old[2]), cap |-> a.cap, ret |-> Ok(index)]

\* try_insert returning the new free-list head instead of the slot it filled.
try_insert_returns_next(a, item) ==
    LET free == get_free(a.data) IN
    IF free = None
    THEN [data |-> a.data, cap |-> a.cap, ret |-> Err(item)]
    ELSE LET index == free[2]
             old == At(a.data, index)
             d1 == Put(a.data, index, Occupied(item))
         IN  [data |-> set_free(d1, old[2]), cap |-> a.cap,
              ret |-> Ok(IF old[2] = None THEN index ELSE old[2][2])]

try_insert(a, item) ==
    LET free == get_free(a.data) IN
    IF free = None
    THEN [data |-> a.data, cap |-> a.cap, ret |-> Err(item)]
    ELSE LET index == free[2] IN
         IF index >= Len(a.data)
         THEN [data |-> a.data, cap |-> a.cap, ret |-> Panic("index out of bounds")]
         ELSE LET old == At(a.data, index)
                  d1 == Put(a.data, index, Occupied(item))
              IN  IF IsOccupied(old)
                  THEN [data |-> d1, cap |-> a.cap, ret |-> Panic("Corrupted arena!")]
                  ELSE [data |-> set_free(d1, old[2]), cap |-> a.cap, ret |-> Ok(index)]

\* reserve_insert building a new store of twice the size instead of
\* extending the one at hand.
reserve_insert_fresh(a, item) ==
    LET r == try_insert(with_capacity(2 * capacity(a)), item) IN
    [data |-> r.data, cap |-> r.cap, ret |-> Index(r.ret[2])]

reserve_insert(a, item) ==
    LET r == try_insert(reserve(a, capacity(a)), item) IN
    IF r.ret[1] = "Ok"
    THEN [data |-> r.data, cap |-> r.cap, ret |-> Index(r.ret[2])]
    ELSE [data |-> r.data, cap |-> r.cap,
          ret |-> IF r.ret[1] = "Err" THEN Panic("Out of memory") ELSE r.ret]

insert(a, item) ==
    LET r == try_insert(a, item) IN
    IF r.ret[1] = "Ok"
    THEN [data |-> r.data, cap |-> r.cap, ret |-> Index(r.ret[2])]
    ELSE IF r.ret[1] = "Err"
         THEN reserve_insert([data |-> r.data, cap |-> r.cap], r.ret[2])
         ELSE r

\* remove putting the entry back in both arms of the match.
remove_restores(a, index) ==
    LET prev == At(a.data, index) IN
    IF IsOccupied(prev)
    THEN [data |-> set_free(a.data, Some(index)), cap |-> a.cap, ret |-> Some(prev[2])]
    ELSE [data |-> a.data, cap |-> a.cap, ret |-> None]

\* remove without `std::mem::replace(&mut self.data[i], prev)` in the Vacant arm.
remove_no_restore(a, index) ==
    LET free == get_free(a.data)
        prev == At(a.data, index)
        d1 == Put(a.data, index, Vacant(free))
    IN  IF IsOccupied(prev)
        THEN [data |-> set_free(d1, Some(index)), cap |-> a.cap, ret |-> Some(prev[2])]
        ELSE [data |-> d1, cap |-> a.cap, ret |-> None]

\* remove without `self.set_free(Some(index.0))` in the Occupied arm.
remove_no_push(a, index) ==
    LET free == get_free(a.data)
        prev == At(a.data, index)
        d1 == Put(a.data, index, Vacant(free))
    IN  IF IsOccupied(prev)
        THEN [data |-> d1, cap |-> a.cap, ret |-> Some(prev[2])]
        ELSE [data |-> Put(d1, index, prev), cap |-> a.cap, ret |-> None]

remove(a, index) ==
    IF index >= Len(a.data)
    THEN [data |-> a.data, cap |-> a.cap, ret |-> Panic("index out of bounds")]
    ELSE LET free == get_free(a.data)
             prev == At(a.data, index)
             d1 == Put(a.data, index, Vacant(free))
         IN  IF IsOccupied(prev)
             THEN [data |-> set_free(d1, Some(index)), cap |-> a.cap, ret |-> Some(prev[2])]
             ELSE [data |-> Put(d1, index, prev), cap |-> a.cap, ret |-> None]

get(d, index) ==
    IF index < Len(d) /\ IsOccupied(At(d, index)) THEN Some(At(d, index)[2]) ELSE None

\* iter starting after the first data slot instead of at the front of the Vec.
RECURSIVE iter_skips_first(_)
iter_skips_first(d) ==
    IF Len(d) <= 2 THEN <<>>
    ELSE LET e == d[Len(d)]
             front == iter_skips_first(SubSeq(d, 1, Len(d) - 1))
         IN  IF IsOccupied(e) THEN Append(front, e[2]) ELSE front

\* self.data.iter().filter_map(..): the items of the occupied entries, in the
\* order of the Vec.
RECURSIVE iter(_)
iter(d) ==
    IF d = <<>> THEN <<>>
    ELSE LET e == d[Len(d)]
             front == iter(SubSeq(d, 1, Len(d) - 1))
         IN  IF IsOccupied(e) THEN Append(front, e[2]) ELSE front

----------------------------------------------------------------------------
(* Generational arena (generational.rs).  Its `len` field is set to 0 by    *)
(* with_capacity and neither read nor written afterwards; it is left out.   *)

GenOccupied(g, item) == <<"Occupied", g, item>>

\* Index::pair: the high 8 bits are the generation, the low 24 the slot.
index_pair(h) == <<(h \div 16777216) % 256, h % 16777216>>

gen_next_free(d) ==
    IF Len(d) > 0 /\ IsVacant(At(d, 0)) THEN At(d, 0)[2] ELSE None

gen_set_free(d, index) == Put(d, 0, Vacant(Some(index)))

gen_reserve(d, n) ==
    LET start == Len(d)
        end == start + n
        free == gen_next_free(d)
        extended == [k \in 1..n |->
                        IF start + k - 1 = end - 1
                        THEN Vacant(free)
                        ELSE Vacant(Some(start + k))]
    IN  gen_set_free(d \o extended, start)

gen_with_capacity(n) == gen_reserve(<<Vacant(None)>>, n)

gen_get(d, index) ==
    LET gen == index_pair(index)[1]
        idx == index_pair(index)[2]
    IN  IF idx < Len(d) /\ IsOccupied(At(d, idx)) /\ At(d, idx)[2] = gen
        THEN Some(At(d, idx)[3])
        ELSE None

gen_try_insert(d, item) ==
    LET idx == gen_next_free(d) IN
    IF idx = None
    THEN [data |-> d, ret |-> None]
    ELSE LET free == idx[2] IN
         IF free >= Len(d)
         THEN [data |-> d, ret |-> Panic("index out of bounds")]
         ELSE IF IsOccupied(At(d, free))
              THEN [data |-> d, ret |-> Panic("Corrupted free list")]
              ELSE [data |-> Put(Put(d, 0, Vacant(At(d, free)[2])), free,
                                 GenOccupied(0, item)),
                    ret |-> Some(free)]

\* remove is declared by the Arena trait (arena/mod.rs) and not written for
\* this arena: an occupied slot whose generation matches the handle's is
\* emptied and pushed on the free list, and the generation the slot is to
\* carry at its next use is raised by one, modulo 256.
gen_remove(d, gens, index) ==
    LET gen == index_pair(index)[1]
        idx == index_pair(index)[2]
    IN  IF idx < Len(d) /\ IsOccupied(At(d, idx)) /\ At(d, idx)[2] = gen
        THEN [data |-> gen_set_free(Put(d, idx, Vacant(gen_next_free(d))), idx),
              gens |-> [gens EXCEPT ![idx] = (gen + 1) % 256],
              ret |-> Some(At(d, idx)[3])]
        ELSE [data |-> d, gens |-> gens, ret |-> None]

VARIABLES
    gdata,      \* Arena::data of the generational arena
    ggen,       \* slot -> the generation remove has set for the slot's next use
    gstale,     \* handles that a remove has retired
    glast       \* the latest call: [op, arg, ret]

genVars == <<gdata, ggen, gstale, glast>>

GenIdle ==
    /\ gdata = <<>>
    /\ ggen = <<>>
    /\ gstale = {}
    /\ glast = [op |-> "none", arg |-> 0, ret |-> None]

----------------------------------------------------------------------------
(* Graph (graph/mod.rs): vertices and edges live in two typed arenas.  A    *)
(* graph value is [arena |-> Arena, edges |-> Arena].  An EdgeIndex is None  *)
(* or Some(slot); a VertexIndex is a slot.                                  *)

\* Direction::index
Outgoing == 0
Incoming == 1

direction_index(dir) == dir

ArenaOf(r) == [data |-> r.data, cap |-> r.cap]

vertex_new(d) == [edges |-> <<None, None>>, data |-> d]

vertex_edge(v, dir) == v.edges[direction_index(dir) + 1]

edge_vertex(e, dir) == e.vertices[direction_index(dir) + 1]

\* Edge::next_edge reading the link of the other direction.
next_edge_flipped(e, dir) == e.next[(1 - direction_index(dir)) + 1]

next_edge(e, dir) == e.next[direction_index(dir) + 1]

graph_with_capacity(c) ==
    [arena |-> with_capacity(c), edges |-> with_capacity(c * 2)]

add_vertex(g, d) ==
    LET r == insert(g.arena, vertex_new(d)) IN
    [arena |-> ArenaOf(r), edges |-> g.edges, ret |-> r.ret]

\* self.arena.get_mut(v).unwrap().edges[dir] = link
SetHead(a, v, dir, link) ==
    LET vertex == At(a.data, v)[2] IN
    [data |-> Put(a.data, v, Occupied(
                  [vertex EXCEPT !.edges[direction_index(dir) + 1] = link])),
     cap |-> a.cap]

\* self.edges.get_mut(idx).unwrap().next = links
SetNext(a, idx, links) ==
    LET edge == At(a.data, idx)[2] IN
    [data |-> Put(a.data, idx, Occupied([edge EXCEPT !.next = links])),
     cap |-> a.cap]

Unwrap == Panic("called Option::unwrap() on a None value")

\* add_edge replacing both list heads in the start vertex.
add_edge_heads_on_start(g, start, end, d) ==
    LET r == insert(g.edges, [vertices |-> <<start, end>>, next |-> <<None, None>>, data |-> d])
        idx == r.ret[2]
        ret == Some(idx)
        outgoing == vertex_edge(get(g.arena.data, start)[2], Outgoing)
        a1 == SetHead(g.arena, start, Outgoing, ret)
        incoming == vertex_edge(get(a1.data, start)[2], Incoming)
        a2 == SetHead(a1, start, Incoming, ret)
    IN  IF get(g.arena.data, start)[1] = "None" \/ get(g.arena.data, end)[1] = "None"
        THEN [arena |-> g.arena, edges |-> ArenaOf(r), ret |-> Unwrap]
        ELSE [arena |-> a2, edges |-> SetNext(ArenaOf(r), idx, <<outgoing, incoming>>),
              ret |-> ret]

\* add_edge storing the old heads in the other order.
add_edge_swapped_next(g, start, end, d) ==
    LET r == insert(g.edges, [vertices |-> <<start, end>>, next |-> <<None, None>>, data |-> d])
        idx == r.ret[2]
        ret == Some(idx)
        outgoing == vertex_edge(get(g.arena.data, start)[2], Outgoing)
        a1 == SetHead(g.arena, start, Outgoing, ret)
        incoming == vertex_edge(get(a1.data, end)[2], Incoming)
        a2 == SetHead(a1, end, Incoming, ret)
    IN  IF get(g.arena.data, start)[1] = "None" \/ get(g.arena.data, end)[1] = "None"
        THEN [arena |-> g.arena, edges |-> ArenaOf(r), ret |-> Unwrap]
        ELSE [arena |-> a2, edges |-> SetNext(ArenaOf(r), idx, <<incoming, outgoing>>),
              ret |-> ret]

\* add_edge without self.edges.get_mut(idx).unwrap().next = [outgoing, incoming].
add_edge_no_link(g, start, end, d) ==
    LET r == insert(g.edges, [vertices |-> <<start, end>>, next |-> <<None, None>>, data |-> d])
        idx == r.ret[2]
        ret == Some(idx)
        a1 == SetHead(g.arena, start, Outgoing, ret)
        a2 == SetHead(a1, end, Incoming, ret)
    IN  IF get(g.arena.data, start)[1] = "None" \/ get(g.arena.data, end)[1] = "None"
        THEN [arena |-> g.arena, edges |-> ArenaOf(r), ret |-> Unwrap]
        ELSE [arena |-> a2, edges |-> ArenaOf(r), ret |-> ret]

add_edge(g, start, end, d) ==
    LET edge == [vertices |-> <<start, end>>, next |-> <<None, None>>, data |-> d]
        \* let idx = self.edges.insert(edge)
        r == insert(g.edges, edge)
    IN
    IF r.ret[1] # "Index"
    THEN [arena |-> g.arena, edges |-> ArenaOf(r), ret |-> r.ret]
    ELSE
    LET idx == r.ret[2]
        ret == Some(idx)
    IN
    \* self.arena.get_mut(start.0).unwrap()
    IF get(g.arena.data, start)[1] = "None"
    THEN [arena |-> g.arena, edges |-> ArenaOf(r), ret |-> Unwrap]
    ELSE
    LET outgoing == vertex_edge(get(g.arena.data, start)[2], Outgoing)
        a1 == SetHead(g.arena, start, Outgoing, ret)
    IN
    \* self.arena.get_mut(end.0).unwrap()
    IF get(a1.data, end)[1] = "None"
    THEN [arena |-> a1, edges |-> ArenaOf(r), ret |-> Unwrap]
    ELSE
    LET incoming == vertex_edge(get(a1.data, end)[2], Incoming)
        a2 == SetHead(a1, end, Incoming, ret)
    IN  [arena |-> a2,
         edges |-> SetNext(ArenaOf(r), idx, <<outgoing, incoming>>),
         ret |-> ret]

get_vertex(g, index) == get(g.arena.data, index)

get_edge(g, index) ==
    IF index[1] = "None" THEN None ELSE get(g.edges.data, index[2])

\* The caller's walk of an adjacency list (bin/main.rs): from a link, take
\* the edge it names and go on with the edge's next link of the same
\* direction until get_edge gives None.  The result lists the edge slots
\* met; -1 ends it when more than fuel edges are met.
RECURSIVE Walk(_, _, _, _)
Walk(g, link, dir, fuel) ==
    LET e == get_edge(g, link) IN
    IF e[1] = "None" THEN <<>>
    ELSE IF fuel = 0 THEN <<-1>>
    ELSE <<link[2]>> \o Walk(g, next_edge(e[2], dir), dir, fuel - 1)

VARIABLES
    g_arena,        \* Graph::arena
    g_edges,        \* Graph::edges
    vertices_added, \* the VertexIndex values add_vertex returned, in order
    edges_added,    \* [e, ends, data] of every add_edge that returned, in order
    graph_last      \* the latest call: [op, arg, ret]

graphVars == <<g_arena, g_edges, vertices_added, edges_added, graph_last>>

GraphIdle ==
    /\ g_arena = [data |-> <<>>, cap |-> 0]
    /\ g_edges = [data |-> <<>>, cap |-> 0]
    /\ vertices_added = <<>>
    /\ edges_added = <<>>
    /\ graph_last = [op |-> "none", arg |-> <<>>, ret |-> None]

otherThanTyped == <<genVars, graphVars>>

----------------------------------------------------------------------------
(* The typed arena and its caller *)

VARIABLES
    data,       \* Arena::data
    cap,        \* data.capacity()
    requested,  \* the n given to with_capacity
    live,       \* {[h, v]}: handles handed out and not removed since, with the item given
    issued,     \* every handle an insert has returned so far
    removed,    \* handles removed successfully since the latest successful insert
    last,       \* the latest call: [op, arg, ret]
    streak      \* [op, n]: all calls so far were n calls of op, none before the last failed

typedVars == <<data, cap, requested, live, issued, removed, last, streak>>

arena == [data |-> data, cap |-> cap]

Panicked == last.ret[1] = "Panic"

Tagged == {r \in live : r.v # PlainValue}

\* The handle the latest call returned or was given.
LastHandle ==
    IF last.op = "insert" /\ last.ret[1] = "Index" THEN {last.ret[2]}
    ELSE IF last.op = "try_insert" /\ last.ret[1] = "Ok" THEN {last.ret[2]}
    ELSE IF last.op \in {"remove", "get"} THEN {last.arg}
    ELSE {}

HandleArgs == {h \in issued : h <= MaxKept} \cup LastHandle

Streak(op) ==
    IF streak.op = "none" \/ (streak.op = op /\ last.ret[1] \in {"Ok", "Index"})
    THEN [op |-> op, n |-> streak.n + 1]
    ELSE [op |-> "other", n |-> 0]

Init ==
    /\ requested \in CapInputs
    /\ data = with_capacity(requested).data
    /\ cap = with_capacity(requested).cap
    /\ live = {}
    /\ issued = {}
    /\ removed = {}
    /\ last = [op |-> "with_capacity", arg |-> requested, ret |-> None]
    /\ streak = [op |-> "none", n |-> 0]
    /\ GenIdle
    /\ GraphIdle

Issue(r, x) ==
    /\ data' = r.data
    /\ cap' = r.cap
    /\ live' = IF r.ret[1] \in {"Ok", "Index"}
               THEN live \cup {[h |-> r.ret[2], v |-> x]} ELSE live
    /\ issued' = IF r.ret[1] \in {"Ok", "Index"}
                 THEN issued \cup {r.ret[2]} ELSE issued
    /\ removed' = IF r.ret[1] \in {"Ok", "Index"} THEN {} ELSE removed

Insert(x) ==
    /\ ~Panicked
    /\ x = PlainValue \/ Tagged = {}
    /\ get_free(data) # None \/ Len(data) + capacity(arena) - 1 <= MaxLen
    /\ Issue(insert(arena, x), x)
    /\ last' = [op |-> "insert", arg |-> x, ret |-> insert(arena, x).ret]
    /\ streak' = Streak("insert")
    /\ UNCHANGED <<requested, otherThanTyped>>

TryInsert(x) ==
    /\ ~Panicked
    /\ x = PlainValue \/ Tagged = {}
    /\ Issue(try_insert(arena, x), x)
    /\ last' = [op |-> "try_insert", arg |-> x, ret |-> try_insert(arena, x).ret]
    /\ streak' = Streak("try_insert")
    /\ UNCHANGED <<requested, otherThanTyped>>

Remove(h) ==
    /\ ~Panicked
    /\ data' = remove(arena, h).data
    /\ cap' = remove(arena, h).cap
    /\ live' = IF remove(arena, h).ret[1] = "Some"
               THEN {r \in live : r.h # h} ELSE live
    /\ removed' = IF remove(arena, h).ret[1] = "Some"
                  THEN removed \cup {h} ELSE removed
    /\ last' = [op |-> "remove", arg |-> h, ret |-> remove(arena, h).ret]
    /\ streak' = Streak("remove")
    /\ UNCHANGED <<requested, issued, otherThanTyped>>

Get(h) ==
    /\ ~Panicked
    /\ last' = [op |-> "get", arg |-> h, ret |-> get(data, h)]
    /\ streak' = Streak("get")
    /\ UNCHANGED <<data, cap, requested, live, issued, removed, otherThanTyped>>

Next ==
    \/ \E x \in Values : Insert(x)
    \/ \E x \in Values : TryInsert(x)
    \/ \E h \in HandleArgs : Remove(h)
    \/ \E h \in HandleArgs : Get(h)

vars == <<typedVars, genVars, graphVars>>

Spec == Init /\ [][Next]_vars

----------------------------------------------------------------------------
(* The generational arena and its caller *)

TypedIdle ==
    /\ data = <<>>
    /\ cap = 0
    /\ requested = 0
    /\ live = {}
    /\ issued = {}
    /\ removed = {}
    /\ last = [op |-> "none", arg |-> 0, ret |-> None]
    /\ streak = [op |-> "none", n |-> 0]

otherThanGen == <<typedVars, graphVars>>

GenPanicked == glast.ret[1] = "Panic"

\* Handles the caller holds: every handle a try_insert has returned.
GenHandles == {i \in 1..(Len(gdata) - 1) : IsOccupied(At(gdata, i))} \cup gstale

GenInit ==
    /\ \E n \in GenCapInputs :
          /\ gdata = gen_with_capacity(n)
          /\ ggen = [i \in 0..n |-> 0]
          /\ glast = [op |-> "with_capacity", arg |-> n, ret |-> None]
    /\ gstale = {}
    /\ TypedIdle
    /\ GraphIdle

GenTryInsert(x) ==
    /\ ~GenPanicked
    /\ gdata' = gen_try_insert(gdata, x).data
    /\ glast' = [op |-> "try_insert", arg |-> x, ret |-> gen_try_insert(gdata, x).ret]
    /\ UNCHANGED <<ggen, gstale, otherThanGen>>

GenRemove(h) ==
    /\ ~GenPanicked
    /\ gdata' = gen_remove(gdata, ggen, h).data
    /\ ggen' = gen_remove(gdata, ggen, h).gens
    /\ gstale' = IF gen_remove(gdata, ggen, h).ret[1] = "Some"
                 THEN gstale \cup {h} ELSE gstale
    /\ glast' = [op |-> "remove", arg |-> h, ret |-> gen_remove(gdata, ggen, h).ret]
    /\ UNCHANGED otherThanGen

GenGet(h) ==
    /\ ~GenPanicked
    /\ glast' = [op |-> "get", arg |-> h, ret |-> gen_get(gdata, h)]
    /\ UNCHANGED <<gdata, ggen, gstale, otherThanGen>>

GenNext ==
    \/ \E x \in Values : GenTryInsert(x)
    \/ \E h \in GenHandles : GenRemove(h)
    \/ \E h \in GenHandles : GenGet(h)

GenSpec == GenInit /\ [][GenNext]_vars

----------------------------------------------------------------------------
(* The graph and its caller *)

otherThanGraph == <<typedVars, genVars>>

graph == [arena |-> g_arena, edges |-> g_edges]

GraphPanicked == graph_last.ret[1] = "Panic"

Range(q) == {q[k] : k \in 1..Len(q)}

\* Vertex handles the caller gives to add_edge: those add_vertex returned and
\* one of a graph that holds one vertex more.
VertexArgs == Range(vertices_added) \cup {Len(vertices_added) + 1}

\* Data other than PlainValue goes to the first vertex and to at most one
\* edge: enough to tell one item from the others.
TaggedEdges == {k \in 1..Len(edges_added) : edges_added[k].data # PlainValue}

GraphInit ==
    /\ \E c \in GraphCapInputs :
          /\ g_arena = graph_with_capacity(c).arena
          /\ g_edges = graph_with_capacity(c).edges
          /\ graph_last = [op |-> "with_capacity", arg |-> <<c>>, ret |-> None]
    /\ vertices_added = <<>>
    /\ edges_added = <<>>
    /\ TypedIdle
    /\ GenIdle

AddVertex(d) ==
    /\ ~GraphPanicked
    /\ Len(vertices_added) < MaxVertices
    /\ d = PlainValue \/ vertices_added = <<>>
    /\ g_arena' = add_vertex(graph, d).arena
    /\ g_edges' = add_vertex(graph, d).edges
    /\ vertices_added' = Append(vertices_added, add_vertex(graph, d).ret[2])
    /\ graph_last' = [op |-> "add_vertex", arg |-> <<d>>, ret |-> add_vertex(graph, d).ret]
    /\ UNCHANGED <<edges_added, otherThanGraph>>

AddEdge(a, b, d) ==
    /\ ~GraphPanicked
    /\ Len(edges_added) < MaxEdges
    /\ d = PlainValue \/ TaggedEdges = {}
    /\ g_arena' = add_edge(graph, a, b, d).arena
    /\ g_edges' = add_edge(graph, a, b, d).edges
    /\ edges_added' =
          IF add_edge(graph, a, b, d).ret[1] = "Some"
          THEN Append(edges_added,
                      [e |-> add_edge(graph, a, b, d).ret[2], ends |-> <<a, b>>, data |-> d])
          ELSE edges_added
    /\ graph_last' = [op |-> "add_edge", arg |-> <<a, b, d>>,
                      ret |-> add_edge(graph, a, b, d).ret]
    /\ UNCHANGED <<vertices_added, otherThanGraph>>

GraphNext ==
    \/ \E d \in Values : AddVertex(d)
    \/ \E a, b \in VertexArgs : \E d \in Values : AddEdge(a, b, d)

GraphSpec == GraphInit /\ [][GraphNext]_vars

----------------------------------------------------------------------------
(* Properties of the typed arena *)

Handles(recs) == {r.h : r \in recs}

\* The slots met by following next links from a link, at most fuel of them;
\* -1 stands for a link that names an occupied or missing slot or for a walk
\* that is still going when the fuel is spent.
RECURSIVE FreeWalk(_, _, _)
FreeWalk(d, link, fuel) ==
    IF link = None THEN <<>>
    ELSE IF fuel = 0 \/ link[2] >= Len(d) \/ IsOccupied(At(d, link[2])) THEN <<-1>>
    ELSE <<link[2]>> \o FreeWalk(d, At(d, link[2])[2], fuel - 1)

FreeList(d) == FreeWalk(d, get_free(d), Len(d))

\* C1: round trip. insert(x) returns a handle h with get(h) = Some(x);
\* remove(h) of a live handle returns the item inserted under it, and right
\* after it get(h) = None.
C1_RoundTrip ==
    [][ /\ last'.op = "insert" =>
              /\ last'.ret[1] = "Index"
              /\ get(data', last'.ret[2]) = Some(last'.arg)
        /\ \A r \in live :
              (last'.op = "remove" /\ last'.arg = r.h) =>
                  /\ get(data, r.h) = Some(r.v)
                  /\ last'.ret = Some(r.v)
                  /\ get(data', r.h) = None ]_vars

C1_Witness ==
    /\ last.op = "remove"
    /\ last.arg \in issued
    /\ last.ret[1] = "Some"
    /\ last.ret[2] # PlainValue
    /\ get(data, last.arg) = None

\* C3: double remove. A remove(h) after a successful remove(h), with no
\* insert in between, returns None and changes no entry of the arena.
C3_DoubleRemove ==
    [][ (last'.op = "remove" /\ last'.arg \in removed) =>
            /\ last'.ret = None
            /\ data' = data
            /\ cap' = cap ]_vars

C3_Witness ==
    /\ last.op = "remove"
    /\ last.arg \in removed
    /\ last.ret = None
    /\ get_free(data) = Some(last.arg)

\* C4: try_insert on an arena whose free list is empty returns Err(value) and
\* changes nothing: no entry, not the head, not the number of slots.
C4_TryInsertFull ==
    [][ (last'.op = "try_insert" /\ get_free(data) = None) =>
            /\ last'.ret = Err(last'.arg)
            /\ data' = data
            /\ cap' = cap
            /\ get_free(data') = None
            /\ Len(data') = Len(data) ]_vars

C4_Witness ==
    /\ last.op = "try_insert"
    /\ last.ret = Err(last.arg)
    /\ get_free(data) = None
    /\ live # {}

\* C5: insert on a full arena grows the store and succeeds, and every handle
\* live before the call resolves to the same item after it; no occupied slot
\* is overwritten or made vacant.
C5_GrowthKeepsHandles ==
    [][ (last'.op = "insert" /\ get_free(data) = None) =>
            /\ Len(data') > Len(data)
            /\ last'.ret[1] = "Index"
            /\ \A r \in live :
                  get(data', r.h) = Some(r.v) /\ get(data', r.h) = get(data, r.h)
            /\ \A i \in 1..(Len(data) - 1) :
                  IsOccupied(At(data, i)) => At(data', i) = At(data, i) ]_vars

C5_Witness ==
    /\ last.op = "insert"
    /\ last.ret[1] = "Index"
    /\ last.ret[2] >= Max(requested, MIN_CAPACITY)
    /\ Len(data) > Max(requested, MIN_CAPACITY)
    /\ Tagged # {}
    /\ \A r \in Tagged : r.h < Max(requested, MIN_CAPACITY)

\* C6: no aliasing. No two live handles name one slot, and every live handle
\* resolves to the item inserted under it.
C6_NoAliasing ==
    /\ \A r1, r2 \in live : r1.h = r2.h => r1 = r2
    /\ \A r \in live : get(data, r.h) = Some(r.v)
    /\ \A i \in 1..(Len(data) - 1) : IsOccupied(At(data, i)) => i \in Handles(live)

C6_Witness ==
    /\ last.op \in {"insert", "try_insert"}
    /\ last.ret[1] \in {"Index", "Ok"}
    /\ \E r \in live : r.h > last.ret[2] /\ r.v # last.arg

\* C7: slot 0 is reserved. Its entry is Vacant, it holds the free-list head,
\* and no handle an insert returned names it.
C7_SlotZeroReserved ==
    /\ Len(data) > 0
    /\ IsVacant(At(data, 0))
    /\ At(data, 0)[2] \in {None} \cup {Some(i) : i \in 1..(Len(data) - 1)}
    /\ 0 \notin issued
    /\ (last.op \in {"insert", "try_insert"} /\ last.ret[1] \in {"Index", "Ok"})
          => last.ret[2] # 0

C7_Witness ==
    /\ last.op = "try_insert"
    /\ last.ret[1] = "Ok"
    /\ removed = {}
    /\ Handles(live) # issued
    /\ IsVacant(At(data, 0))

\* C8: free list. Following next links from the head in slot 0 visits every
\* vacant slot other than slot 0 exactly once, no occupied or missing slot,
\* and ends at None.
C8_FreeList ==
    LET w == FreeList(data) IN
    /\ \A k \in 1..Len(w) : w[k] # -1
    /\ \A j, k \in 1..Len(w) : w[j] = w[k] => j = k
    /\ {w[k] : k \in 1..Len(w)} = {i \in 1..(Len(data) - 1) : IsVacant(At(data, i))}

C8_Witness ==
    /\ Len(data) > Max(requested, MIN_CAPACITY)
    /\ Cardinality(removed) >= 2
    /\ Len(FreeList(data)) > Cardinality(removed)

\* C9: with_capacity(n) gives max(n, MIN_CAPACITY) usable slots: on a new
\* arena that many try_insert calls in a row all succeed.
C9_UsableSlots ==
    (streak.op = "try_insert" /\ streak.n <= Max(requested, MIN_CAPACITY))
        => last.ret[1] = "Ok"

\* C10: on an arena made with capacity 16, after exactly 15 inserts in a row
\* the head in slot 0 is None, nothing has grown and capacity() is 16.
C10_Fill ==
    (streak.op = "insert" /\ streak.n = MIN_CAPACITY - 1 /\ requested <= MIN_CAPACITY)
        => /\ get_free(data) = None
           /\ Len(data) = MIN_CAPACITY
           /\ capacity(arena) = MIN_CAPACITY
           /\ Cardinality(live) = MIN_CAPACITY - 1

C10_Witness ==
    /\ streak.op = "insert"
    /\ streak.n = MIN_CAPACITY - 1
    /\ requested <= MIN_CAPACITY
    /\ Tagged # {}

\* The number of occupied slots.
Occupancy(d) == Cardinality({i \in 0..(Len(d) - 1) : IsOccupied(At(d, i))})

\* C11: capacity() never decreases over a call, and the number of occupied
\* slots is at most capacity() before and after every call.
C11_CapacityMonotone ==
    [][ /\ capacity([data |-> data', cap |-> cap']) >= capacity(arena)
        /\ Occupancy(data) <= capacity(arena)
        /\ Occupancy(data') <= capacity([data |-> data', cap |-> cap']) ]_vars

C11_Witness ==
    /\ last.op = "remove"
    /\ last.ret[1] = "Some"
    /\ capacity(arena) > Max(requested, MIN_CAPACITY)
    /\ Occupancy(data) >= MIN_CAPACITY

\* C15: iteration yields exactly the occupied entries, each once, in
\* ascending slot order, whatever the order of the inserts was.
C15_Iteration ==
    LET yielded == iter(data) IN
    /\ Len(yielded) = Cardinality(live)
    /\ \A r \in live :
          yielded[Cardinality({q \in live : q.h <= r.h})] = r.v

C15_Witness ==
    /\ last.op \in {"insert", "try_insert"}
    /\ last.ret[1] \in {"Index", "Ok"}
    /\ last.arg # PlainValue
    /\ Cardinality(live) >= 3
    /\ \E r \in live : r.h > last.ret[2]
    /\ iter(data)[1] = last.arg

\* C16: the free-list head never names an occupied or missing slot, so
\* try_insert never panics with "Corrupted arena!".
C16_NoCorruption ==
    /\ last.ret # Panic("Corrupted arena!")
    /\ get_free(data) # None =>
          /\ get_free(data)[2] < Len(data)
          /\ IsVacant(At(data, get_free(data)[2]))

C16_Witness ==
    /\ last.op = "try_insert"
    /\ last.ret[1] = "Ok"
    /\ last.ret[2] \in 1..MaxKept
    /\ get_free(data) # None
    /\ Len(data) > Max(requested, MIN_CAPACITY)

\* C20: slot reuse is last-in first-out and goes unnoticed: the insert right
\* after a successful remove(h) returns h again, and get through the old h
\* gives the new item.
C20_ReuseUndetected ==
    [][ (last.op = "remove" /\ last.ret[1] = "Some" /\ last'.op = "insert") =>
            /\ last'.ret = Index(last.arg)
            /\ get(data', last.arg) = Some(last'.arg) ]_vars

C20_Witness ==
    /\ last.op = "insert"
    /\ last.ret[1] = "Index"
    /\ last.ret[2] \in 1..MaxKept
    /\ Cardinality(live) >= 2
    /\ get(data, last.ret[2]) = Some(last.arg)
    /\ last.arg = PlainValue
    /\ Tagged # {}

----------------------------------------------------------------------------
(* Properties of the generational arena *)

\* C2: stale handles. Once remove(h) has retired h and an insert has filled
\* h's slot again, get(h) with the original handle is None, while get with the
\* handle the insert returned gives the new item.
C2_StaleHandle ==
    /\ \A h \in gstale :
          IsOccupied(At(gdata, index_pair(h)[2])) => gen_get(gdata, h) = None
    /\ (glast.op = "try_insert" /\ glast.ret[1] = "Some")
          => gen_get(gdata, glast.ret[2]) = Some(glast.arg)

\* C18: a new generational arena's free list. After with_capacity(n) the
\* head is slot 1 and the next links visit the slots 1, 2, ..., n in
\* ascending order and then None, every link naming a slot of the store; no
\* try_insert indexes out of bounds.
C18_InitialFreeList ==
    /\ glast.op = "with_capacity" =>
          /\ gen_next_free(gdata) = Some(1)
          /\ FreeWalk(gdata, gen_next_free(gdata), Len(gdata))
                = [k \in 1..glast.arg |-> k]
    /\ glast.ret # Panic("index out of bounds")

----------------------------------------------------------------------------
(* Properties of the graph *)

Directions == {Outgoing, Incoming}

\* The walk of vertex v's list of direction dir, from the head the vertex
\* holds; an edge arena of n slots lets a walk without repeats meet fewer
\* than n edges.
AdjacencyWalk(v, dir) ==
    Walk(graph, vertex_edge(get_vertex(graph, v)[2], dir), dir, Len(g_edges.data))

\* The edges of the log q whose endpoint of direction dir is v, newest first.
RECURSIVE Logged(_, _, _)
Logged(q, v, dir) ==
    IF Len(q) = 0 THEN <<>>
    ELSE LET r == q[Len(q)]
             older == Logged(SubSeq(q, 1, Len(q) - 1), v, dir)
         IN  IF r.ends[dir + 1] = v THEN <<r.e>> \o older ELSE older

\* C12: adjacency correctness. After e = add_edge(a, b, d) on vertices of the
\* graph (a = b included), e is met by the Outgoing walk from a and by the
\* Incoming walk from b, and get_edge(e) has data d and endpoints [a, b].
C12_AdjacencyCorrect ==
    (graph_last.op = "add_edge" /\ graph_last.ret[1] = "Some") =>
        LET a == graph_last.arg[1]
            b == graph_last.arg[2]
            d == graph_last.arg[3]
            e == graph_last.ret[2]
            stored == get_edge(graph, Some(e))
        IN  /\ e \in Range(AdjacencyWalk(a, Outgoing))
            /\ e \in Range(AdjacencyWalk(b, Incoming))
            /\ stored[1] = "Some"
            /\ stored[2].data = d
            /\ edge_vertex(stored[2], Outgoing) = a
            /\ edge_vertex(stored[2], Incoming) = b

C12_Witness ==
    /\ graph_last.op = "add_edge"
    /\ graph_last.ret[1] = "Some"
    /\ graph_last.arg[1] # graph_last.arg[2]
    /\ graph_last.arg[3] # PlainValue
    /\ Len(edges_added) = MaxEdges
    /\ \E k \in 1..Len(edges_added) : edges_added[k].ends[1] = edges_added[k].ends[2]

C14_Endpoints ==
    ~GraphPanicked =>
        \A v \in Range(vertices_added) : \A dir \in Directions :
            LET w == AdjacencyWalk(v, dir) IN
            \A k \in 1..Len(w) :
                LET stored == get_edge(graph, Some(w[k])) IN
                /\ stored[1] = "Some"
                /\ edge_vertex(stored[2], dir) = v

C14_Witness ==
    /\ ~GraphPanicked
    /\ \E v, w \in Range(vertices_added) :
          /\ v # w
          /\ Len(AdjacencyWalk(v, Outgoing)) = 2
          /\ Len(AdjacencyWalk(v, Incoming)) = 2
          /\ Len(AdjacencyWalk(w, Incoming)) = 1

\* C17: the walk terminates and is complete. For every vertex and direction
\* the walk ends at the empty link, meets no edge twice, and meets exactly
\* the edges of the edge arena that have the vertex as that endpoint;
\* self-loops and parallel edges included.
C17_WalkComplete ==
    ~GraphPanicked =>
        \A v \in Range(vertices_added) : \A dir \in Directions :
            LET w == AdjacencyWalk(v, dir) IN
            /\ -1 \notin Range(w)
            /\ Cardinality(Range(w)) = Len(w)
            /\ Range(w) = {i \in 1..(Len(g_edges.data) - 1) :
                              /\ IsOccupied(At(g_edges.data, i))
                              /\ edge_vertex(At(g_edges.data, i)[2], dir) = v}

C17_Witness ==
    /\ ~GraphPanicked
    /\ Len(edges_added) = MaxEdges
    /\ \E j, k \in 1..Len(edges_added) :
          /\ j < k
          /\ edges_added[j].ends = edges_added[k].ends
          /\ edges_added[j].ends[1] = edges_added[j].ends[2]
    /\ \E v \in Range(vertices_added) : Len(AdjacencyWalk(v, Outgoing)) = MaxEdges

\* C19: a failing add_edge leaves the graph unchanged. When add_edge fails
\* because a vertex handle does not resolve, no edge slot has been allocated
\* and no vertex's list head has been modified: the edge arena holds the
\* edges of the calls that returned, and every head is the newest of them.
C19_FailedAddEdgeUnchanged ==
    (graph_last.op = "add_edge" /\ GraphPanicked) =>
        /\ Occupancy(g_edges.data) = Len(edges_added)
        /\ \A v \in Range(vertices_added) : \A dir \in Directions :
              vertex_edge(get_vertex(graph, v)[2], dir) =
                  IF Logged(edges_added, v, dir) = <<>>
                  THEN None
                  ELSE Some(Logged(edges_added, v, dir)[1])

====
